---------------------------- MODULE Spec2Model ----------------------------
(***************************************************************************)
(* A model of the chat screenshot extractor (src/streamlit_app.py, and the *)
(* extraction-only variant src/app.py): image ingestion and ordering,      *)
(* prompt construction, the two model calls, and the per-session state     *)
(* (Transcript and AnalysisCache) that the Streamlit script main() keeps   *)
(* in st.session_state across its reruns.                                  *)
(*                                                                         *)
(* Text is a sequence of one-character strings, so that trimming and       *)
(* comparison are computed character by character as Python does.          *)
(***************************************************************************)
EXTENDS Integers, Sequences, FiniteSets, TLC

VARIABLES
    api_key_input,      \* the text of the sidebar's API key field
    uploaded_files,     \* the files held by the file uploader
    conversation,       \* st.session_state.conversation (the Transcript)
    analysis_results,   \* st.session_state.analysis_results (the AnalysisCache)
    now,                \* the clock time.time() and time.strftime() read
    run,                \* what the latest run of main() did and showed
    arg,    \* input of a direct call of one ChatExtractor method
    out     \* [done, val]: the result of that call once it has returned

sessionVars ==
    <<api_key_input, uploaded_files, conversation, analysis_results, now, run>>

pureVars == <<arg, out>>

vars ==
    <<api_key_input, uploaded_files, conversation, analysis_results, now, run,
      arg, out>>

(***************************************************************************)
(* Bounds of the model                                                     *)
(***************************************************************************)
MaxFiles == 3       \* longest upload list handed to prepare_images
MaxTextLen == 2     \* longest transcript and context handed to the prompt builder
MaxClock == 4       \* the session is followed until the clock reads MaxClock
MaxKeyLen == 3      \* longest API key handed to the constructor directly
MaxEscapeLen == 3   \* longest text handed to escape_javascript_string

\* Shortest API key, surrounding whitespace removed, that the sidebar accepts.
MinKeyLen == 20

(***************************************************************************)
(* Text                                                                    *)
(***************************************************************************)
\* The characters str.strip() removes (those of them the model uses).
Whitespace == {" ", "\n", "\r", "\t"}

\* Code points of the characters that occur in filenames: Python compares
\* str values code point by code point.
Ord(c) ==
    CASE c = "." -> 46
      [] c = "0" -> 48
      [] c = "1" -> 49
      [] c = "a" -> 97
      [] c = "b" -> 98
      [] c = "c" -> 99
      [] OTHER   -> 120

RECURSIVE lstrip(_)
lstrip(s) ==
    IF s = <<>> THEN <<>>
    ELSE IF Head(s) \in Whitespace THEN lstrip(Tail(s))
    ELSE s

RECURSIVE rstrip(_)
rstrip(s) ==
    IF s = <<>> THEN <<>>
    ELSE IF s[Len(s)] \in Whitespace THEN rstrip(SubSeq(s, 1, Len(s) - 1))
    ELSE s

\* str.strip(): leading and trailing whitespace removed.
strip(s) == rstrip(lstrip(s))

\* Python's a < b on str: lexicographic by code point, a proper prefix first.
RECURSIVE StrLess(_, _)
StrLess(a, b) ==
    IF b = <<>> THEN FALSE
    ELSE IF a = <<>> THEN TRUE
    ELSE IF Ord(Head(a)) < Ord(Head(b)) THEN TRUE
    ELSE IF Ord(Head(a)) > Ord(Head(b)) THEN FALSE
    ELSE StrLess(Tail(a), Tail(b))

\* A string of n copies of the character c.
Rep(c, n) == [i \in 1..n |-> c]

(***************************************************************************)
(* ChatExtractor.prepare_images                                            *)
(***************************************************************************)
\* An uploaded file is [name, bytes].  PIL's Image.open is outside the
\* repository: here it accepts exactly the byte strings that start with the
\* magic character "P", and raises on every other one.
Decodes(bytes) == bytes # <<>> /\ Head(bytes) = "P"

\* The decoded image handle of a byte string.
ImageOpen(bytes) == [pixels |-> bytes]

\* A message shown with st.error; name is the file it is about, if any.
Err(kind) == [kind |-> kind, name |-> <<>>]

\* The message st.error shows for a file that failed (line 72).
ProcessingError(name) == [kind |-> "processing", name |-> name]

\* A loop without the try/except: the first failure leaves the call.
OnDecodeErrorRaise(acc, file) == [acc EXCEPT !.raised = TRUE]

\* The except clause of lines 71-73: the failure is reported with the file's
\* name and the loop continues with the next file.
OnDecodeError(acc, file) ==
    [acc EXCEPT !.errors = Append(@, ProcessingError(file.name))]

\* One pass of the loop of lines 56-73 over the accumulated
\* [file_data, errors, raised].
LoopBody(acc, file) ==
    IF Decodes(file.bytes)
    THEN [acc EXCEPT !.file_data =
              Append(@, [name  |-> file.name,
                         image |-> ImageOpen(file.bytes),
                         size  |-> Len(file.bytes)])]
    ELSE OnDecodeError(acc, file)

\* for file in uploaded_files: ...   An exception that leaves the loop body
\* ends the loop (and the call).
RECURSIVE ForEachFile(_, _)
ForEachFile(files, acc) ==
    IF files = <<>> \/ acc.raised THEN acc
    ELSE ForEachFile(Tail(files), LoopBody(acc, Head(files)))

\* An insertion that puts an entry before the entries with the same name.
RECURSIVE InsertBeforeEqual(_, _)
InsertBeforeEqual(e, sorted) ==
    IF sorted = <<>> THEN <<e>>
    ELSE IF ~StrLess(Head(sorted).name, e.name) THEN <<e>> \o sorted
    ELSE <<Head(sorted)>> \o InsertBeforeEqual(e, Tail(sorted))

\* list.sort(key=...) is stable: an entry goes after every entry whose key is
\* not greater than its own.
RECURSIVE InsertByName(_, _)
InsertByName(e, sorted) ==
    IF sorted = <<>> THEN <<e>>
    ELSE IF StrLess(e.name, Head(sorted).name) THEN <<e>> \o sorted
    ELSE <<Head(sorted)>> \o InsertByName(e, Tail(sorted))

RECURSIVE SortByNameFrom(_, _)
SortByNameFrom(entries, acc) ==
    IF entries = <<>> THEN acc
    ELSE SortByNameFrom(Tail(entries), InsertByName(Head(entries), acc))

\* A sort that was forgotten: the entries stay in upload order.
SortByNameUpload(entries) == entries

\* file_data.sort(key=lambda x: x['name'])  (line 76)
SortByName(entries) == SortByNameFrom(entries, <<>>)

\* A return whose image list is in upload order beside the sorted metadata.
AfterLoopImagesUnsorted(acc, file_data) ==
    IF acc.raised
    THEN [images |-> <<>>, file_data |-> <<>>, errors |-> acc.errors,
          raised |-> TRUE]
    ELSE [images    |-> [i \in 1..Len(acc.file_data) |-> acc.file_data[i].image],
          file_data |-> file_data,
          errors    |-> acc.errors,
          raised    |-> FALSE]

\* Lines 75-81 after the loop has ended with acc.
AfterLoop(acc, file_data) ==
    IF acc.raised
    THEN [images |-> <<>>, file_data |-> <<>>, errors |-> acc.errors,
          raised |-> TRUE]
    ELSE [images    |-> [i \in 1..Len(file_data) |-> file_data[i].image],
          file_data |-> file_data,
          errors    |-> acc.errors,
          raised    |-> FALSE]

SortedAfterLoop(acc) == AfterLoop(acc, SortByName(acc.file_data))

\* prepare_images(uploaded_files): the images, the metadata list, and the
\* messages reported on the way; raised is TRUE when an exception leaves the
\* call, which then returns nothing.
prepare_images(files) ==
    SortedAfterLoop(ForEachFile(files, [file_data |-> <<>>, errors |-> <<>>,
                                        raised |-> FALSE]))

(***************************************************************************)
(* ChatExtractor.generate_analysis_prompt                                  *)
(***************************************************************************)
\* The keys of the prompts dict (lines 131-203), which are also the keys of
\* get_analysis_descriptions() that the radio button offers (lines 347-355).
AnalysisTypes ==
    { "communication_style", "emotional_tone", "relationship_dynamics",
      "hidden_meanings", "conversation_flow", "cultural_context",
      "comprehensive" }

\* The fixed text after base_context in each entry of prompts, by its title.
TemplateBody(analysis_type) ==
    CASE analysis_type = "communication_style"   -> "COMMUNICATION STYLE ANALYSIS:"
      [] analysis_type = "emotional_tone"        -> "EMOTIONAL TONE & SENTIMENT ANALYSIS:"
      [] analysis_type = "relationship_dynamics" -> "RELATIONSHIP DYNAMICS ANALYSIS:"
      [] analysis_type = "hidden_meanings"       -> "SUBTEXT & HIDDEN MEANINGS ANALYSIS:"
      [] analysis_type = "conversation_flow"     -> "CONVERSATION FLOW & STRUCTURE ANALYSIS:"
      [] analysis_type = "cultural_context"      -> "CULTURAL & LINGUISTIC CONTEXT ANALYSIS:"
      [] analysis_type = "comprehensive"         -> "COMPREHENSIVE CONVERSATION ANALYSIS:"

\* A preamble whose context block is written for every non-empty context.
BaseContextUnstripped(conversation_text, user_context) ==
    <<"CONVERSATION TO ANALYZE:">>
    \o conversation_text
    \o (IF user_context # <<>>
        THEN <<"USER PROVIDED CONTEXT: ">> \o user_context
        ELSE <<>>)
    \o <<"ANALYSIS INSTRUCTIONS:">>

\* The f-string of lines 120-128.  A prompt is a sequence whose elements are
\* the fixed pieces of the template (one element each) and the characters of
\* the interpolated texts.
BaseContext(conversation_text, user_context) ==
    <<"CONVERSATION TO ANALYZE:">>
    \o conversation_text
    \o (IF strip(user_context) # <<>>
        THEN <<"USER PROVIDED CONTEXT: ">> \o user_context
        ELSE <<>>)
    \o <<"ANALYSIS INSTRUCTIONS:">>

\* prompts[analysis_type]: a KeyError for a key the dict does not have.
PromptsSubscript(prompts, analysis_type) ==
    IF analysis_type \in DOMAIN prompts
    THEN [raised |-> FALSE, prompt |-> prompts[analysis_type]]
    ELSE [raised |-> TRUE, prompt |-> <<>>]

\* prompts.get(analysis_type, prompts["comprehensive"])  (line 235)
PromptsGet(prompts, analysis_type) ==
    IF analysis_type \in DOMAIN prompts
    THEN [raised |-> FALSE, prompt |-> prompts[analysis_type]]
    ELSE [raised |-> FALSE, prompt |-> prompts["comprehensive"]]

\* generate_analysis_prompt: [raised, prompt].
generate_analysis_prompt(conversation_text, analysis_type, user_context) ==
    LET base_context == BaseContext(conversation_text, user_context)
        prompts == [t \in AnalysisTypes |-> base_context \o <<TemplateBody(t)>>]
    IN  PromptsGet(prompts, analysis_type)

(***************************************************************************)
(* Optional values, the model's responses, the session's dict              *)
(***************************************************************************)
\* Optional[str]: None, or a str.
None == [some |-> FALSE, text |-> <<>>]
Some(t) == [some |-> TRUE, text |-> t]

\* Python's truth value of an Optional[str]: None and "" are both false.
Truthy(v) == v.some /\ v.text # <<>>

\* What model.generate_content does with a request: it raises, returns a
\* falsy response, returns an object without a text attribute, or returns a
\* response with text (kind "raise", "none", "no_text", "text"); secs is how
\* long the call takes on the clock.  NoResponse stands for no call made.
NoResponse == [kind |-> "unused", text |-> <<>>, secs |-> 0]

\* A dict rebuilt with the one entry for k.
DictOnly(d, k, v) == [x \in {k} |-> v]

\* d[k] = v on a dict: the entry for k is set, every other entry is kept.
DictSet(d, k, v) == [x \in (DOMAIN d) \cup {k} |-> IF x = k THEN v ELSE d[x]]

EmptyDict == [x \in {} |-> None]

\* A direct call of a method that has not returned yet, and one that has.
Pending == [done |-> FALSE, val |-> <<>>]
Returned(v) == [done |-> TRUE, val |-> v]

(***************************************************************************)
(* ChatExtractor.__init__                                                  *)
(***************************************************************************)
\* configured_key is the key handed to genai.configure, None when the
\* constructor raised before it; model_ok is whether genai.GenerativeModel
\* returned rather than raised.
\* A constructor without the test of lines 31-32.
ChatExtractorUnchecked(api_key, model_ok) ==
    IF ~model_ok
    THEN [ok |-> FALSE, configured_key |-> Some(api_key),
          error |-> Err("model_init_failed")]
    ELSE [ok |-> TRUE, configured_key |-> Some(api_key), error |-> Err("")]

\* ChatExtractor(api_key), lines 27-41: [ok, configured_key, error].
ChatExtractorInit(api_key, model_ok) ==
    IF api_key = <<>> \/ strip(api_key) = <<>>
    THEN [ok |-> FALSE, configured_key |-> None, error |-> Err("empty_api_key")]
    ELSE IF ~model_ok
    THEN [ok |-> FALSE, configured_key |-> Some(api_key),
          error |-> Err("model_init_failed")]
    ELSE [ok |-> TRUE, configured_key |-> Some(api_key), error |-> Err("")]

(***************************************************************************)
(* ChatExtractor.extract_conversation and analyze_conversation             *)
(***************************************************************************)
\* generate_extraction_prompt(): one fixed string.
ExtractionPrompt == "You are an intelligent conversation extractor."

\* The response's text with the leading whitespace removed only.
ResponseResultLeftStripped(response, no_response_error) ==
    IF response.kind = "text"
    THEN [ret |-> Some(lstrip(response.text)), errors |-> <<>>]
    ELSE [ret |-> None, errors |-> <<Err(no_response_error)>>]

\* The response's text returned as it came, without strip().
ResponseResultUnstripped(response, no_response_error) ==
    IF response.kind = "text"
    THEN [ret |-> Some(response.text), errors |-> <<>>]
    ELSE [ret |-> None, errors |-> <<Err(no_response_error)>>]

\* Lines 261-265 and 293-297: the value returned for a response that did not
\* raise, and the message shown when nothing is returned.
ResponseResult(response, no_response_error) ==
    IF response.kind = "text"
    THEN [ret |-> Some(strip(response.text)), errors |-> <<>>]
    ELSE [ret |-> None, errors |-> <<Err(no_response_error)>>]

\* A content list with the images in reverse order.
ExtractionContentReversed(images) ==
    [kind |-> "extraction",
     content |-> <<ExtractionPrompt>>
                 \o [i \in 1..Len(images) |-> images[Len(images) + 1 - i]]]

\* A request is [kind, content], content being the argument handed to
\* model.generate_content.  Lines 252-257: content = [prompt] and
\* content.extend(images).
ExtractionContent(images) ==
    [kind |-> "extraction", content |-> <<ExtractionPrompt>> \o images]

\* Line 291: the analysis prompt is handed over as it is.
AnalysisContent(prompt) ==
    [kind |-> "analysis", content |-> prompt]

\* A call without the try/except: what generate_content raises leaves the
\* method.
GenerateUncaught(content, response, api_error, no_response_error) ==
    IF response.kind = "raise"
    THEN [ret |-> None, errors |-> <<>>, requests |-> <<content>>,
          raised |-> TRUE]
    ELSE [ret      |-> ResponseResult(response, no_response_error).ret,
          errors   |-> ResponseResult(response, no_response_error).errors,
          requests |-> <<content>>,
          raised   |-> FALSE]

\* A call that sends the request a second time when the first one raised.
GenerateRetrying(content, response, api_error, no_response_error) ==
    IF response.kind = "raise"
    THEN [ret |-> None, errors |-> <<Err(api_error)>>,
          requests |-> <<content, content>>,
          raised |-> FALSE]
    ELSE [ret      |-> ResponseResult(response, no_response_error).ret,
          errors   |-> ResponseResult(response, no_response_error).errors,
          requests |-> <<content>>,
          raised |-> FALSE]

\* Lines 250-269 and 286-301 from the call of generate_content on: the
\* request content is sent and the model answers with response.
Generate(content, response, api_error, no_response_error) ==
    IF response.kind = "raise"
    THEN [ret |-> None, errors |-> <<Err(api_error)>>, requests |-> <<content>>,
          raised |-> FALSE]
    ELSE [ret      |-> ResponseResult(response, no_response_error).ret,
          errors   |-> ResponseResult(response, no_response_error).errors,
          requests |-> <<content>>,
          raised |-> FALSE]

\* extract_conversation without the test of lines 247-248: the request is
\* sent whatever the image list holds.
ExtractWithoutGuard(images, response) ==
    Generate(ExtractionContent(images), response, "gemini_api_error",
             "no_response")

\* extract_conversation(images) when the model answers with response:
\* [ret, errors, requests, raised], requests being the contents sent to the
\* model and raised whether an exception left the method.
extract_conversation(images, response) ==
    IF images = <<>>
    THEN [ret |-> None, errors |-> <<>>, requests |-> <<>>,
          raised |-> FALSE]
    ELSE Generate(ExtractionContent(images), response, "gemini_api_error",
                  "no_response")

\* Lines 286-301, generate_analysis_prompt having returned p (or raised).
AnalyzeWithPrompt(p, response) ==
    IF p.raised
    THEN [ret |-> None, errors |-> <<Err("analysis_error")>>, requests |-> <<>>,
          raised |-> FALSE]
    ELSE Generate(AnalysisContent(p.prompt), response, "analysis_error",
                  "no_analysis_response")

\* An analysis that builds its prompt from the transcript "b", whatever
\* transcript it is handed.
AnalyzeFixedTranscript(conversation_text, analysis_type, user_context, response) ==
    IF conversation_text = <<>>
    THEN [ret |-> None, errors |-> <<>>, requests |-> <<>>,
          raised |-> FALSE]
    ELSE AnalyzeWithPrompt(
             generate_analysis_prompt(<<"b">>, analysis_type, user_context),
             response)

\* analyze_conversation(conversation_text, analysis_type, user_context) when
\* the model answers with response.
analyze_conversation(conversation_text, analysis_type, user_context, response) ==
    IF conversation_text = <<>>
    THEN [ret |-> None, errors |-> <<>>, requests |-> <<>>,
          raised |-> FALSE]
    ELSE AnalyzeWithPrompt(
             generate_analysis_prompt(conversation_text, analysis_type,
                                      user_context),
             response)

(***************************************************************************)
(* escape_javascript_string                                                *)
(***************************************************************************)
\* The backtick character, which a TLA+ string cannot hold, by name.
Backtick == "<backtick>"

\* text.replace(old, new) for a one-character old: every occurrence of old,
\* from left to right, becomes the characters of new.
RECURSIVE Replace(_, _, _)
Replace(text, old, new) ==
    IF text = <<>> THEN <<>>
    ELSE (IF Head(text) = old THEN new ELSE <<Head(text)>>)
         \o Replace(Tail(text), old, new)

\* The five replacements that are left when the backslash is not escaped.
EscapeWithoutBackslash(text) ==
    Replace(
      Replace(
        Replace(
          Replace(
            Replace(text, Backtick, <<"\\", Backtick>>),
            "\n", <<"\\", "n">>),
          "\r", <<"\\", "r">>),
        "\"", <<"\\", "\"">>),
      "'", <<"\\", "'">>)

\* The six replacements with the backslash escaped last.
EscapeBackslashLast(text) ==
    Replace(
      Replace(
        Replace(
          Replace(
            Replace(
              Replace(text, Backtick, <<"\\", Backtick>>),
              "\n", <<"\\", "n">>),
            "\r", <<"\\", "r">>),
          "\"", <<"\\", "\"">>),
        "'", <<"\\", "'">>),
      "\\", <<"\\", "\\">>)

\* Lines 336-343: the six replacements, each applied to the result of the
\* one before.
escape_javascript_string(text) ==
    Replace(
      Replace(
        Replace(
          Replace(
            Replace(
              Replace(text, "\\", <<"\\", "\\">>),
              Backtick, <<"\\", Backtick>>),
            "\n", <<"\\", "n">>),
          "\r", <<"\\", "r">>),
        "\"", <<"\\", "\"">>),
      "'", <<"\\", "'">>)

(***************************************************************************)
(* main(): one run of the script                                           *)
(***************************************************************************)
\* The length test made on the key as typed, blanks included.
ApiKeyValidRaw(key) == key # <<>> /\ Len(key) >= MinKeyLen

\* Lines 383-403: api_key_valid.
ApiKeyValid(key) == key # <<>> /\ Len(strip(key)) >= MinKeyLen

\* The record of a run before it has done anything.  stage is where the run
\* ended: "no_key" (line 466), "init_failed" (476), "prepare_raised" (501),
\* "no_images" (505), "no_transcript" (633) or "end"; shown is the set of
\* buttons the run rendered; called is the ChatExtractor call it made; before
\* is the session state the run started from.
NewRun(button, sess) ==
    [trigger |-> button, stage |-> "no_key", configured_key |-> None,
     before |-> [conversation |-> sess.conversation,
                 analysis_results |-> sess.analysis_results],
     images |-> <<>>, file_data |-> <<>>, errors |-> <<>>, requests |-> <<>>,
     response |-> NoResponse, called |-> "none", ret |-> None,
     selected_analysis |-> "", user_context |-> <<>>, shown |-> {},
     reran |-> FALSE]

\* The returned value stored without the test of line 542.
StoreConversationAlways(st, ret) == [st EXCEPT !.conversation = ret]

\* A store that also empties the analysis results when the transcript is
\* replaced.
StoreConversationInvalidating(st, ret) ==
    IF Truthy(ret)
    THEN [st EXCEPT !.conversation = ret, !.analysis_results = EmptyDict]
    ELSE [st EXCEPT !.run.errors = Append(@, Err("extract_failed"))]

\* A store that empties the analysis results when the extraction returned
\* nothing.
StoreConversationFailureClears(st, ret) ==
    IF Truthy(ret)
    THEN [st EXCEPT !.conversation = ret]
    ELSE [st EXCEPT !.analysis_results = EmptyDict,
                    !.run.errors = Append(@, Err("extract_failed"))]

\* A store that forgets the transcript when the extraction returned nothing.
StoreConversationForgetting(st, ret) ==
    IF Truthy(ret)
    THEN [st EXCEPT !.conversation = ret]
    ELSE [st EXCEPT !.conversation = None,
                    !.run.errors = Append(@, Err("extract_failed"))]

\* Lines 542-544 and 612-613: what the run does with the value
\* extract_conversation returned.
StoreConversation(st, ret) ==
    IF Truthy(ret)
    THEN [st EXCEPT !.conversation = ret]
    ELSE [st EXCEPT !.run.errors = Append(@, Err("extract_failed"))]

\* The run's record of a call of extract_conversation or
\* analyze_conversation that gave res, and the clock after it: a call that
\* sent a request took response.secs.
RecordCall(st, called, response, res) ==
    [st EXCEPT !.run.called = called,
               !.run.requests = res.requests,
               !.run.errors = @ \o res.errors,
               !.run.ret = res.ret,
               !.run.response = IF res.requests # <<>> THEN response ELSE @,
               !.now = IF res.requests # <<>> THEN @ + response.secs ELSE @]

\* Lines 542-613, extract_conversation having returned res.
AfterExtract(st, response, res) ==
    StoreConversation(RecordCall(st, "extract", response, res), res.ret)

\* Lines 531-613: the Extract Conversation button was pressed.
ExtractPressed(st, images, in) ==
    AfterExtract(st, in.response, extract_conversation(images, in.response))

\* Lines 507-613: there are images; the previews and the Extract button.
ExtractButton(st, images, in) ==
    IF in.button = "extract"
    THEN ExtractPressed([st EXCEPT !.run.shown = @ \cup {"extract"}], images, in)
    ELSE [st EXCEPT !.run.shown = @ \cup {"extract"}]

\* Lines 496-505 once prepare_images has returned prep (or raised).
AfterPrepare(st, prep, in) ==
    IF prep.raised
    THEN [st EXCEPT !.run.errors = @ \o prep.errors \o <<Err("processing_images")>>,
                    !.run.stage = "prepare_raised",
                    !.returned = TRUE]
    ELSE IF prep.images = <<>>
    THEN [st EXCEPT !.run.file_data = prep.file_data,
                    !.run.errors = @ \o prep.errors \o <<Err("no_valid_images")>>,
                    !.run.stage = "no_images",
                    !.returned = TRUE]
    ELSE ExtractButton([st EXCEPT !.run.images = prep.images,
                                  !.run.file_data = prep.file_data,
                                  !.run.errors = @ \o prep.errors],
                       prep.images, in)

\* Lines 482-626: the first tab.
Tab1(st, files, in) ==
    IF files = <<>> THEN st ELSE AfterPrepare(st, prepare_images(files), in)

\* The returned value stored without the test of line 687.
StoreAnalysisAlways(st, selected_analysis, user_context, ret, analysis_time) ==
    [st EXCEPT !.analysis_results =
        DictSet(@, selected_analysis,
                [result          |-> ret.text,
                 timestamp       |-> st.now,
                 context         |-> user_context,
                 processing_time |-> analysis_time])]

\* Lines 687-694 and 767-768: what the run does with the value
\* analyze_conversation returned.
StoreAnalysis(st, selected_analysis, user_context, ret, analysis_time) ==
    IF Truthy(ret)
    THEN [st EXCEPT !.analysis_results =
              DictSet(@, selected_analysis,
                      [result          |-> ret.text,
                       timestamp       |-> st.now,
                       context         |-> user_context,
                       processing_time |-> analysis_time])]
    ELSE [st EXCEPT !.run.errors = Append(@, Err("analyze_failed"))]

\* Lines 685-768, analyze_conversation having returned res.
AfterAnalyze(st, in, res) ==
    StoreAnalysis([RecordCall(st, "analyze", in.response, res)
                       EXCEPT !.run.selected_analysis = in.selected_analysis,
                              !.run.user_context = in.user_context],
                  in.selected_analysis, in.user_context, res.ret,
                  IF res.requests # <<>> THEN in.response.secs ELSE 0)

\* Lines 673-768: the Analyze Conversation button was pressed.
AnalyzePressed(st, in) ==
    AfterAnalyze(st, in,
                 analyze_conversation(st.conversation.text, in.selected_analysis,
                                      in.user_context, in.response))

\* A clear that removes one record only.
ClearOneResult(results) ==
    [x \in (DOMAIN results) \ {CHOOSE k \in DOMAIN results : TRUE}
        |-> results[x]]

\* Line 796: st.session_state.analysis_results = {}
ClearResults(results) == EmptyDict

\* Lines 793-797: the Clear Analysis History button, rendered only while
\* there are results; pressing it empties them and restarts the script.
ClearButton(st, in) ==
    IF DOMAIN st.analysis_results = {} THEN st
    ELSE IF in.button = "clear"
    THEN [st EXCEPT !.run.shown = @ \cup {"clear"},
                    !.analysis_results = ClearResults(@),
                    !.rerun = TRUE]
    ELSE [st EXCEPT !.run.shown = @ \cup {"clear"}]

\* Lines 635-768: the analysis widgets and the Analyze button.
AnalyzeButton(st, in) ==
    IF in.button = "analyze"
    THEN AnalyzePressed([st EXCEPT !.run.shown = @ \cup {"analyze"},
                                   !.run.stage = "end"], in)
    ELSE [st EXCEPT !.run.shown = @ \cup {"analyze"}, !.run.stage = "end"]

\* Lines 628-797: the second tab.
Tab2(st, in) ==
    IF ~Truthy(st.conversation)
    THEN [st EXCEPT !.run.stage = "no_transcript", !.returned = TRUE]
    ELSE ClearButton(AnalyzeButton(st, in), in)

\* Lines 478-797: the two tabs; a return in the first ends the run.
Tabs(st, in) == IF st.returned THEN st ELSE Tab2(st, in)

\* Lines 468-797, ChatExtractor(api_key_input.strip()) having returned the
\* extractor or raised.
WithExtractor(st, extractor, files, in) ==
    IF ~extractor.ok
    THEN [st EXCEPT !.run.configured_key = extractor.configured_key,
                    !.run.stage = "init_failed",
                    !.run.errors = <<extractor.error, Err("init_failed")>>]
    ELSE Tabs(Tab1([st EXCEPT !.run.configured_key = extractor.configured_key],
                   files, in),
              in)

\* The run at its start: the session state sess = [conversation,
\* analysis_results, now] with an empty record.
StartRun(sess, in) ==
    [conversation |-> sess.conversation,
     analysis_results |-> sess.analysis_results,
     now |-> sess.now,
     run |-> NewRun(in.button, sess),
     returned |-> FALSE, rerun |-> FALSE]

\* Lines 357-797: one run of main() from the session state sess with the
\* widgets holding key and files.  in = [button, selected_analysis,
\* user_context, model_ok, response]: the button that is pressed in this run
\* ("none" for a run that a widget change started), the analysis widgets, and
\* what the Gemini client does.  The result is the session state after the
\* run with the run's record, and rerun: st.rerun() was called.
MainRun(key, files, sess, in) ==
    IF ~ApiKeyValid(key) THEN StartRun(sess, in)
    ELSE WithExtractor(StartRun(sess, in),
                       ChatExtractorInit(strip(key), in.model_ok), files, in)

\* The run that follows st.rerun(): no button is pressed in it.  Its record
\* keeps the button and the starting state of the run that called st.rerun().
RerunAfter(first, key, files, in, rerun_model_ok) ==
    [MainRun(key, files, first,
             [in EXCEPT !.button = "none", !.model_ok = rerun_model_ok])
        EXCEPT !.run.trigger = in.button,
               !.run.reran = TRUE,
               !.run.before = first.run.before]

\* What follows the run `first`: nothing, or the rerun it asked for.
FollowUp(first, key, files, in, rerun_model_ok) ==
    IF first.rerun THEN RerunAfter(first, key, files, in, rerun_model_ok)
    ELSE first

\* A press of a button or a widget change runs the script once; a run that
\* called st.rerun() is followed at once by a second run.
Script(key, files, sess, in, rerun_model_ok) ==
    FollowUp(MainRun(key, files, sess, in), key, files, in, rerun_model_ok)

(***************************************************************************)
(* The session: what the user and the Gemini service can do                *)
(***************************************************************************)
\* API keys the user types: none, blank, 5 characters, one character short
\* of MinKeyLen inside surrounding blanks, exactly MinKeyLen inside
\* surrounding blanks, and 25 characters.
ApiKeys ==
    { <<>>,
      Rep(" ", 3),
      Rep("k", 5),
      <<" ">> \o Rep("k", MinKeyLen - 1) \o <<" ">>,
      <<" ">> \o Rep("k", MinKeyLen) \o <<" ">>,
      Rep("k", MinKeyLen + 5) }

\* Upload lists the user makes: nothing, one corrupt file, a corrupt file
\* with a good one, two good files named in reverse order.
GoodA == [name |-> <<"a">>, bytes |-> <<"P">>]
GoodB == [name |-> <<"b">>, bytes |-> <<"P", "x">>]
BadA  == [name |-> <<"a">>, bytes |-> <<"x">>]
Uploads == { <<>>, <<BadA>>, <<BadA, GoodB>>, <<GoodB, GoodA>> }

\* What the Gemini service answers.
Responses ==
    { [kind |-> "raise",   text |-> <<>>, secs |-> 1],
      [kind |-> "none",    text |-> <<>>, secs |-> 1],
      [kind |-> "no_text", text |-> <<>>, secs |-> 1],
      [kind |-> "text",    text |-> <<>>, secs |-> 1],
      [kind |-> "text",    text |-> <<" ", "\n">>, secs |-> 1],
      [kind |-> "text",    text |-> <<" ", "a", "\n">>, secs |-> 1],
      [kind |-> "text",    text |-> <<"b">>, secs |-> 2] }

\* The analysis types the user selects and the contexts the user types.
SelectedTypes == { "emotional_tone", "hidden_meanings", "comprehensive" }
Contexts == { <<>>, <<"c">> }

\* The inputs of a run in which button is pressed; the widgets of a run
\* that does not read them are left at their defaults.
Inputs(button, selected_analysis, user_context, model_ok, response) ==
    [button |-> button, selected_analysis |-> selected_analysis,
     user_context |-> user_context, model_ok |-> model_ok,
     response |-> response]

NoButton(model_ok) ==
    Inputs("none", "communication_style", <<>>, model_ok, NoResponse)

Session == [conversation |-> conversation,
            analysis_results |-> analysis_results, now |-> now]

\* The state the script's run leaves behind.
Becomes(result) ==
    /\ conversation' = result.conversation
    /\ analysis_results' = result.analysis_results
    /\ now' = result.now
    /\ run' = result.run

\* The session after the first run of the script, the key field empty.
InitSession ==
    /\ api_key_input = <<>>
    /\ uploaded_files = <<>>
    /\ conversation = None
    /\ analysis_results = EmptyDict
    /\ now = 0
    /\ run = NewRun("none", [conversation |-> None,
                              analysis_results |-> EmptyDict])

\* The user types an API key: the script runs with the new key.
EnterApiKey ==
    \E key \in ApiKeys, model_ok \in BOOLEAN :
        /\ api_key_input' = key
        /\ Becomes(Script(key, uploaded_files, Session, NoButton(model_ok), TRUE))
        /\ UNCHANGED <<uploaded_files, arg, out>>

\* The user changes the uploaded files: the script runs with the new files.
UploadFiles ==
    \E files \in Uploads, model_ok \in BOOLEAN :
        /\ uploaded_files' = files
        /\ Becomes(Script(api_key_input, files, Session, NoButton(model_ok), TRUE))
        /\ UNCHANGED <<api_key_input, arg, out>>

\* The user presses Extract Conversation, which the latest run rendered.
ClickExtract ==
    /\ "extract" \in run.shown
    /\ \E model_ok \in BOOLEAN, response \in Responses :
        /\ now + response.secs <= MaxClock
        /\ Becomes(Script(api_key_input, uploaded_files, Session,
                          Inputs("extract", "communication_style", <<>>,
                                 model_ok, response),
                          TRUE))
    /\ UNCHANGED <<api_key_input, uploaded_files, arg, out>>

\* The user presses Analyze Conversation, which the latest run rendered,
\* with an analysis type selected and a context typed.
ClickAnalyze ==
    /\ "analyze" \in run.shown
    /\ \E selected_analysis \in SelectedTypes, user_context \in Contexts,
          model_ok \in BOOLEAN, response \in Responses :
        /\ now + response.secs <= MaxClock
        /\ Becomes(Script(api_key_input, uploaded_files, Session,
                          Inputs("analyze", selected_analysis, user_context,
                                 model_ok, response),
                          TRUE))
    /\ UNCHANGED <<api_key_input, uploaded_files, arg, out>>

\* The user presses Clear Analysis History, which the latest run rendered.
ClickClear ==
    /\ "clear" \in run.shown
    /\ \E model_ok \in BOOLEAN, rerun_model_ok \in BOOLEAN :
        Becomes(Script(api_key_input, uploaded_files, Session,
                       Inputs("clear", "communication_style", <<>>, model_ok,
                              NoResponse),
                       rerun_model_ok))
    /\ UNCHANGED <<api_key_input, uploaded_files, arg, out>>

Next ==
    \/ EnterApiKey
    \/ UploadFiles
    \/ ClickExtract
    \/ ClickAnalyze
    \/ ClickClear

Init ==
    /\ InitSession
    /\ arg = <<>>
    /\ out = Pending

Spec == Init /\ [][Next]_vars

(***************************************************************************)
(* Direct calls of prepare_images on every upload list up to MaxFiles      *)
(***************************************************************************)
FileNames == { <<"a">>, <<"a", "b">>, <<"b">> }
FileBytes == { <<"x">>, <<"P">>, <<"P", "x">> }
Files     == [name : FileNames, bytes : FileBytes]

UploadLists == UNION { [1..n -> Files] : n \in 0..MaxFiles }

InitPrepare ==
    /\ InitSession
    /\ arg \in UploadLists
    /\ out = Pending

CallPrepareImages ==
    /\ ~out.done
    /\ out' = Returned(prepare_images(arg))
    /\ UNCHANGED <<arg, sessionVars>>

NextPrepare == CallPrepareImages

SpecPrepare == InitPrepare /\ [][NextPrepare]_vars

(***************************************************************************)
(* Direct calls of generate_analysis_prompt                                *)
(***************************************************************************)
TextChars == {" ", "a"}
Texts == UNION { [1..n -> TextChars] : n \in 0..MaxTextLen }

\* Values of analysis_type that are not keys of prompts.
UnknownTypes == { "", "unknown", "Comprehensive", "comprehensive " }

PromptArgs ==
    [conversation_text : Texts,
     analysis_type     : AnalysisTypes \cup UnknownTypes,
     user_context      : Texts]

InitPrompt ==
    /\ InitSession
    /\ arg \in PromptArgs
    /\ out = Pending

CallGenerateAnalysisPrompt ==
    /\ ~out.done
    /\ out' = Returned(generate_analysis_prompt(arg.conversation_text,
                                                arg.analysis_type,
                                                arg.user_context))
    /\ UNCHANGED <<arg, sessionVars>>

NextPrompt == CallGenerateAnalysisPrompt

SpecPrompt == InitPrompt /\ [][NextPrompt]_vars

(***************************************************************************)
(* Direct calls of ChatExtractor(api_key)                                  *)
(***************************************************************************)
KeyChars == {" ", "\t", "k"}
DirectKeys == UNION { [1..n -> KeyChars] : n \in 0..MaxKeyLen }

InitConstruct ==
    /\ InitSession
    /\ arg \in [api_key : DirectKeys, model_ok : BOOLEAN]
    /\ out = Pending

CallChatExtractor ==
    /\ ~out.done
    /\ out' = Returned(ChatExtractorInit(arg.api_key, arg.model_ok))
    /\ UNCHANGED <<arg, sessionVars>>

NextConstruct == CallChatExtractor

SpecConstruct == InitConstruct /\ [][NextConstruct]_vars

(***************************************************************************)
(* Direct calls of escape_javascript_string                                *)
(***************************************************************************)
\* The six characters the function escapes, and two it leaves alone.
EscapeChars == {"\\", Backtick, "\n", "\r", "\"", "'", "a", "n"}
EscapeTexts == UNION { [1..n -> EscapeChars] : n \in 0..MaxEscapeLen }

InitEscape ==
    /\ InitSession
    /\ arg \in EscapeTexts
    /\ out = Pending

CallEscapeJavascriptString ==
    /\ ~out.done
    /\ out' = Returned(escape_javascript_string(arg))
    /\ UNCHANGED <<arg, sessionVars>>

NextEscape == CallEscapeJavascriptString

SpecEscape == InitEscape /\ [][NextEscape]_vars

(***************************************************************************)
(* Direct calls of the three operations of ChatExtractor                   *)
(***************************************************************************)
\* The image lists handed to extract_conversation.
ImageLists ==
    UNION { [1..n -> { ImageOpen(b) : b \in { y \in FileBytes : Decodes(y) } }]
              : n \in 0..MaxFiles }

\* A call is the name of the method with its arguments and, for the two
\* methods that send a request, what the model does with it.
OperationCalls ==
    [op : {"prepare_images"}, files : UploadLists]
    \cup [op : {"extract_conversation"}, images : ImageLists,
          response : Responses]
    \cup [op : {"analyze_conversation"}, conversation_text : Texts,
          analysis_type : SelectedTypes \cup {"unknown"}, user_context : Contexts,
          response : Responses]

InitOperations ==
    /\ InitSession
    /\ arg \in OperationCalls
    /\ out = Pending

OpPrepareImages ==
    /\ ~out.done
    /\ arg.op = "prepare_images"
    /\ out' = Returned(prepare_images(arg.files))
    /\ UNCHANGED <<arg, sessionVars>>

OpExtractConversation ==
    /\ ~out.done
    /\ arg.op = "extract_conversation"
    /\ out' = Returned(extract_conversation(arg.images, arg.response))
    /\ UNCHANGED <<arg, sessionVars>>

OpAnalyzeConversation ==
    /\ ~out.done
    /\ arg.op = "analyze_conversation"
    /\ out' = Returned(analyze_conversation(arg.conversation_text,
                                            arg.analysis_type,
                                            arg.user_context, arg.response))
    /\ UNCHANGED <<arg, sessionVars>>

NextOperations ==
    \/ OpPrepareImages
    \/ OpExtractConversation
    \/ OpAnalyzeConversation

SpecOperations == InitOperations /\ [][NextOperations]_vars

(***************************************************************************)
(* Properties of prepare_images                                            *)
(***************************************************************************)
Occurrences(s, x) == Cardinality({ i \in DOMAIN s : s[i] = x })

\* a <= b in lexicographic order, stated by the first position that differs.
LexLeq(a, b) ==
    \/ a = b
    \/ \E k \in 1..Len(b) :
          /\ \A i \in 1..(k - 1) : i <= Len(a) /\ a[i] = b[i]
          /\ k - 1 <= Len(a)
          /\ (k = Len(a) + 1 \/ Ord(a[k]) < Ord(b[k]))

AscendingByName(file_data) ==
    \A i, j \in DOMAIN file_data :
        i < j => LexLeq(file_data[i].name, file_data[j].name)

AllDecode(files) == \A i \in DOMAIN files : Decodes(files[i].bytes)

DistinctNames(files) ==
    \A i, j \in DOMAIN files : i # j => files[i].name # files[j].name

PermutationsOf(s) ==
    { [i \in DOMAIN s |-> s[p[i]]] :
        p \in { q \in [DOMAIN s -> DOMAIN s] :
                  \A i, j \in DOMAIN s : i # j => q[i] # q[j] } }

\* The metadata entry prepare_images keeps for a file that decodes.
EntryOf(file) ==
    [name |-> file.name, image |-> [pixels |-> file.bytes],
     size |-> Len(file.bytes)]

\* C1: for an upload list whose files all decode, prepare_images returns all
\* of them in ascending filename order, and when the names are distinct every
\* permutation of the upload list gives the same result.
C1_SortedByFilename ==
    (out.done /\ AllDecode(arg)) =>
        /\ ~out.val.raised
        /\ Len(out.val.file_data) = Len(arg)
        /\ \A i \in DOMAIN arg :
              Occurrences(out.val.file_data, EntryOf(arg[i])) = Occurrences(arg, arg[i])
        /\ AscendingByName(out.val.file_data)
        /\ out.val.images =
              [i \in DOMAIN out.val.file_data |-> out.val.file_data[i].image]
        /\ DistinctNames(arg) =>
              \A q \in PermutationsOf(arg) :
                  /\ prepare_images(q).images = out.val.images
                  /\ prepare_images(q).file_data = out.val.file_data

\* Three decodable files uploaded as b, a, ab come back as a, ab, b.
C1_Witness ==
    /\ out.done
    /\ Len(arg) = 3
    /\ AllDecode(arg)
    /\ [i \in 1..3 |-> arg[i].name] = << <<"b">>, <<"a">>, <<"a", "b">> >>
    /\ [i \in 1..3 |-> out.val.file_data[i].name]
          = << <<"a">>, <<"a", "b">>, <<"b">> >>

\* C2: whatever subset of the uploaded files fails to decode, the call does
\* not raise, the result holds exactly the files that decoded (each as often
\* as it was uploaded) in filename order, and each failing file is reported
\* once and is absent from the result.
C2_PartialSuccess ==
    out.done =>
        /\ ~out.val.raised
        /\ Len(out.val.file_data)
              = Cardinality({ i \in DOMAIN arg : Decodes(arg[i].bytes) })
        /\ \A i \in DOMAIN arg :
              IF Decodes(arg[i].bytes)
              THEN Occurrences(out.val.file_data, EntryOf(arg[i]))
                      = Occurrences(arg, arg[i])
              ELSE /\ \A k \in DOMAIN out.val.file_data :
                         out.val.file_data[k].image # [pixels |-> arg[i].bytes]
                   /\ Occurrences(out.val.errors, ProcessingError(arg[i].name))
                         = Cardinality({ j \in DOMAIN arg :
                                            /\ ~Decodes(arg[j].bytes)
                                            /\ arg[j].name = arg[i].name })
        /\ Len(out.val.errors)
              = Cardinality({ i \in DOMAIN arg : ~Decodes(arg[i].bytes) })
        /\ AscendingByName(out.val.file_data)
        /\ Len(out.val.images) = Len(out.val.file_data)

\* Three uploads of which the second is corrupt: the first and the third are
\* returned, in filename order, and the second is reported.
C2_Witness ==
    /\ out.done
    /\ Len(arg) = 3
    /\ Decodes(arg[1].bytes) /\ ~Decodes(arg[2].bytes) /\ Decodes(arg[3].bytes)
    /\ StrLess(arg[3].name, arg[1].name)
    /\ out.val.file_data = << EntryOf(arg[3]), EntryOf(arg[1]) >>
    /\ out.val.errors = << ProcessingError(arg[2].name) >>

(***************************************************************************)
(* Properties of generate_analysis_prompt                                  *)
(***************************************************************************)
\* C9: for every transcript and context, an analysis type outside the seven
\* known values gives, without raising, exactly the prompt that
\* "comprehensive" gives: the shared preamble followed by the comprehensive
\* template.
C9_UnknownTypeIsComprehensive ==
    (out.done /\ arg.analysis_type \notin AnalysisTypes) =>
        /\ ~out.val.raised
        /\ out.val.prompt
              = generate_analysis_prompt(arg.conversation_text, "comprehensive",
                                         arg.user_context).prompt
        /\ out.val.prompt
              = BaseContext(arg.conversation_text, arg.user_context)
                   \o <<"COMPREHENSIVE CONVERSATION ANALYSIS:">>

\* The prompt was built for the unrecognised type "unknown", with a transcript
\* and a context.
C9_Witness ==
    /\ out.done
    /\ arg.analysis_type = "unknown"
    /\ arg.conversation_text = <<"a", "a">>
    /\ arg.user_context = <<"a">>
    /\ out.val.prompt[Len(out.val.prompt)] = "COMPREHENSIVE CONVERSATION ANALYSIS:"

(***************************************************************************)
(* Properties of the session                                               *)
(***************************************************************************)
NoneDecodes(files) == \A i \in DOMAIN files : ~Decodes(files[i].bytes)

FailedResponse(response) == response.kind \in {"raise", "none", "no_text"}

Reported(kind) == \E i \in DOMAIN run.errors : run.errors[i] = Err(kind)

\* C3: extract_conversation on an empty image list returns None and sends
\* nothing to the model, whatever the model would answer; and a run of the
\* script in which none of the uploaded files decodes renders no Extract
\* button, calls no extraction and sends no request.
C3_EmptyInputNoRequest ==
    /\ \A response \in Responses :
          /\ extract_conversation(<<>>, response).ret = None
          /\ extract_conversation(<<>>, response).requests = <<>>
    /\ (uploaded_files # <<>> /\ NoneDecodes(uploaded_files)) =>
          /\ run.images = <<>>
          /\ run.requests = <<>>
          /\ run.called = "none"
          /\ "extract" \notin run.shown
    /\ \A i \in DOMAIN run.requests :
          run.requests[i].kind = "extraction" =>
              Len(run.requests[i].content) > 1

\* With a valid key and a transcript already held, the only uploaded file is
\* corrupt: the run stops at "No valid images found".
C3_Witness ==
    /\ uploaded_files = <<BadA>>
    /\ run.stage = "no_images"
    /\ Reported("no_valid_images")
    /\ Truthy(conversation)

\* C4 as claimed: every extraction whose request returns text overwrites the
\* Transcript with that text trimmed.
C4_Original ==
    (run.called = "extract" /\ run.response.kind = "text") =>
        conversation = Some(strip(run.response.text))

\* C4, amended: a step changes the Transcript exactly when it is an
\* extraction whose response has text that is not empty once trimmed, and
\* then the Transcript becomes that trimmed text; a response whose trimmed
\* text is empty leaves the Transcript as it was.  So the Transcript is
\* always the trimmed text of the latest such extraction.
C4_TranscriptIsLatestExtraction ==
    [][ IF /\ run'.called = "extract"
           /\ run'.response.kind = "text"
           /\ strip(run'.response.text) # <<>>
        THEN conversation' = Some(strip(run'.response.text))
        ELSE conversation' = conversation ]_vars

\* A second extraction returned " a\n" after an earlier one had stored "b":
\* the Transcript is now "a".
C4_Witness ==
    /\ run.called = "extract"
    /\ run.response.text = <<" ", "a", "\n">>
    /\ run.before.conversation = Some(<<"b">>)
    /\ conversation = Some(<<"a">>)

\* C5: an extraction whose request raises, or returns no response or one
\* without text, returns None and reports the failure, and leaves the
\* Transcript and the AnalysisCache as they were.
C5_ExtractionFailureKeepsState ==
    [][ (run'.called = "extract" /\ FailedResponse(run'.response)) =>
            /\ run'.ret = None
            /\ \E i \in DOMAIN run'.errors :
                  run'.errors[i] \in
                      {Err("gemini_api_error"), Err("no_response")}
            /\ conversation' = conversation
            /\ analysis_results' = analysis_results ]_vars

\* A re-extraction raised while the session held a transcript and a record.
C5_Witness ==
    /\ run.called = "extract"
    /\ run.response.kind = "raise"
    /\ Reported("gemini_api_error")
    /\ Truthy(conversation)
    /\ DOMAIN analysis_results # {}
    /\ run.before.conversation = conversation

\* The record a successful analysis stores.
RecordOf(r, clock) ==
    [result          |-> r.ret.text,
     timestamp       |-> clock,
     context         |-> r.user_context,
     processing_time |-> r.response.secs]

\* C6: an analysis of type T that returns a result stores its record under
\* T, in place of any record T had, and keeps every other type's record; the
\* record carries this run's result, context and timestamp.
C6_AnalysisOverwritesOwnType ==
    [][ (run'.called = "analyze" /\ Truthy(run'.ret)) =>
            /\ DOMAIN analysis_results'
                  = (DOMAIN analysis_results) \cup {run'.selected_analysis}
            /\ analysis_results'[run'.selected_analysis] = RecordOf(run', now')
            /\ \A t \in (DOMAIN analysis_results) \ {run'.selected_analysis} :
                  analysis_results'[t] = analysis_results[t] ]_vars

\* The second successful emotional_tone analysis, with another context than
\* the first, while hidden_meanings has a record too.
C6_Witness ==
    /\ run.called = "analyze"
    /\ Truthy(run.ret)
    /\ run.selected_analysis = "emotional_tone"
    /\ "emotional_tone" \in DOMAIN run.before.analysis_results
    /\ run.before.analysis_results["emotional_tone"].context # run.user_context
    /\ "hidden_meanings" \in DOMAIN analysis_results
    /\ analysis_results["emotional_tone"].context = run.user_context
    /\ analysis_results["emotional_tone"].timestamp = now

\* C7: an analysis whose request raises, or returns no response or one
\* without text, returns None and reports the failure, and leaves the
\* AnalysisCache and the Transcript as they were.
C7_AnalysisFailureKeepsState ==
    [][ (run'.called = "analyze" /\ FailedResponse(run'.response)) =>
            /\ run'.ret = None
            /\ \E i \in DOMAIN run'.errors :
                  run'.errors[i] \in
                      {Err("analysis_error"), Err("no_analysis_response")}
            /\ analysis_results' = analysis_results
            /\ conversation' = conversation ]_vars

\* An analysis of a type that already has a record failed.
C7_Witness ==
    /\ run.called = "analyze"
    /\ run.response.kind = "none"
    /\ Reported("no_analysis_response")
    /\ run.selected_analysis \in DOMAIN analysis_results
    /\ analysis_results = run.before.analysis_results

\* C8: a run in which Clear Analysis History is pressed and acts leaves the
\* AnalysisCache empty and the Transcript as it was.
C8_ClearEmptiesCache ==
    [][ (run'.trigger = "clear" /\ run'.reran) =>
            /\ analysis_results' = EmptyDict
            /\ conversation' = conversation ]_vars

\* Two records were cleared; the transcript is still there.
C8_Witness ==
    /\ run.trigger = "clear"
    /\ run.reran
    /\ Cardinality(DOMAIN run.before.analysis_results) = 2
    /\ DOMAIN analysis_results = {}
    /\ Truthy(conversation)

\* C10: a key whose length without surrounding whitespace is under MinKeyLen
\* stops the run before a client is constructed, a button rendered or a
\* request sent; a key of MinKeyLen or more reaches the construction of the
\* client, which is configured with the key without surrounding whitespace.
C10_ShortKeyRejected ==
    /\ Len(strip(api_key_input)) < MinKeyLen =>
          /\ run.stage = "no_key"
          /\ run.configured_key = None
          /\ run.requests = <<>>
          /\ run.shown = {}
    /\ Len(strip(api_key_input)) >= MinKeyLen =>
          /\ run.stage # "no_key"
          /\ run.configured_key = Some(strip(api_key_input))

\* The key of MinKeyLen characters typed between blanks was accepted, the
\* client got it without the blanks, and a request was sent.
C10_Witness ==
    /\ api_key_input = <<" ">> \o Rep("k", MinKeyLen) \o <<" ">>
    /\ run.configured_key = Some(Rep("k", MinKeyLen))
    /\ run.requests # <<>>


(***************************************************************************)
(* Properties of ChatExtractor(api_key)                                    *)
(***************************************************************************)
Blank(s) == \A i \in DOMAIN s : s[i] \in Whitespace

\* C11: constructing ChatExtractor with an empty or whitespace-only key
\* raises the validation error and nothing was handed to genai.configure, so
\* no extractor exists; a key with a non-blank character is handed to
\* genai.configure as it was given.
C11_BlankKeyRaisesBeforeConfigure ==
    out.done =>
        IF Blank(arg.api_key)
        THEN /\ ~out.val.ok
             /\ out.val.error = Err("empty_api_key")
             /\ out.val.configured_key = None
        ELSE /\ out.val.configured_key = Some(arg.api_key)
             /\ out.val.error # Err("empty_api_key")

\* The constructor was called with a key of blanks and tabs while the model
\* would have been created without error.
C11_Witness ==
    /\ out.done
    /\ arg.api_key = <<" ", "\t", " ">>
    /\ arg.model_ok
    /\ ~out.val.ok
    /\ out.val.configured_key = None

(***************************************************************************)
(* Properties of escape_javascript_string                                  *)
(***************************************************************************)
\* The escape of one character: a backslash before each of the six, with the
\* newline and the carriage return written as the letters n and r.
EscapeOf(c) ==
    CASE c = "\\" -> <<"\\", "\\">>
      [] c = Backtick  -> <<"\\", Backtick>>
      [] c = "\n" -> <<"\\", "n">>
      [] c = "\r" -> <<"\\", "r">>
      [] c = "\"" -> <<"\\", "\"">>
      [] c = "'"  -> <<"\\", "'">>
      [] OTHER    -> <<c>>

RECURSIVE MapChars(_)
MapChars(text) ==
    IF text = <<>> THEN <<>> ELSE EscapeOf(Head(text)) \o MapChars(Tail(text))

\* C12: the result of escape_javascript_string is the input with each
\* character replaced by its own escape, so no backslash that a replacement
\* inserted is escaped again; a backslash followed by a backtick gives two
\* backslashes followed by a backslash and the backtick.
C12_EscapeIsCharByChar ==
    out.done =>
        /\ out.val = MapChars(arg)
        /\ arg = <<"\\", Backtick>> => out.val = <<"\\", "\\", "\\", Backtick>>

\* The function was called on a backslash followed by a backtick.
C12_Witness ==
    /\ out.done
    /\ arg = <<"\\", Backtick>>
    /\ out.val = <<"\\", "\\", "\\", Backtick>>

(***************************************************************************)
(* Properties of the session: the transcript and the cache over time       *)
(***************************************************************************)
\* C13: no step of the session takes a Transcript away: when the session
\* holds a transcript before a run of the script, whatever the run does
\* (an extraction that succeeds, fails or has no images, an analysis, a
\* clear, a change of key or files), it holds one after it; and a held
\* Transcript is never the empty text.
C13_TranscriptNeverAbsentAgain ==
    [][ /\ conversation # None => conversation' # None
        /\ conversation' # None => conversation'.text # <<>> ]_vars

\* With a transcript held, an extraction got a response of blanks only: the
\* transcript is still the one held before.
C13_Witness ==
    /\ run.called = "extract"
    /\ run.response.kind = "text"
    /\ run.response.text = <<" ", "\n">>
    /\ run.before.conversation # None
    /\ conversation = run.before.conversation

\* C14: a run in which extract_conversation was called, whether it stored a
\* new Transcript or failed, ends with the AnalysisCache it started with:
\* the same types with the same result, context, timestamp and duration.
C14_ReExtractionKeepsRecords ==
    run.called = "extract" =>
        /\ DOMAIN analysis_results = DOMAIN run.before.analysis_results
        /\ \A t \in DOMAIN analysis_results :
              analysis_results[t] = run.before.analysis_results[t]

\* A re-extraction replaced the transcript while an analysis record made
\* from the old one was held: the record is still there.
C14_Witness ==
    /\ run.called = "extract"
    /\ Truthy(run.ret)
    /\ Truthy(run.before.conversation)
    /\ conversation # run.before.conversation
    /\ DOMAIN analysis_results # {}
    /\ analysis_results = run.before.analysis_results

(***************************************************************************)
(* Properties of the session: the requests sent to the model               *)
(***************************************************************************)
\* C15: a run in which Extract or Analyze was pressed and the client was
\* constructed calls the matching method, and that call sends exactly one
\* request, of its own kind, whether the request succeeds or fails; a run
\* started by anything else sends none.  So a request is sent only by a
\* press of one of the two buttons, and a failed one is not sent again.
C15_OneRequestPerAction ==
    /\ (run.trigger \in {"extract", "analyze"} /\ run.stage # "init_failed") =>
          run.called = run.trigger
    /\ run.called = "extract" =>
          /\ run.trigger = "extract"
          /\ Len(run.requests) = 1
          /\ run.requests[1].kind = "extraction"
    /\ run.called = "analyze" =>
          /\ run.trigger = "analyze"
          /\ Len(run.requests) = 1
          /\ run.requests[1].kind = "analysis"
    /\ run.called = "none" => run.requests = <<>>

\* An analysis request raised: it was the only request of the run.
C15_Witness ==
    /\ run.called = "analyze"
    /\ run.response.kind = "raise"
    /\ Reported("analysis_error")
    /\ Len(run.requests) = 1
    /\ analysis_results = run.before.analysis_results

\* C16: the content of the request an extraction sends is the extraction
\* prompt followed by the images of the run, one element each and in the
\* same order, and the images of the run are the ones prepare_images returned
\* for the uploaded files, in the order it returned them.
C16_ExtractionContentOrder ==
    run.called = "extract" =>
        /\ run.images = prepare_images(uploaded_files).images
        /\ run.images # <<>>
        /\ Len(run.requests[1].content) = 1 + Len(run.images)
        /\ run.requests[1].content[1] = ExtractionPrompt
        /\ \A i \in DOMAIN run.images :
              run.requests[1].content[i + 1] = run.images[i]

\* The files b and a were uploaded in that order: the request holds the
\* prompt, then the image of a, then the image of b.
C16_Witness ==
    /\ run.called = "extract"
    /\ uploaded_files = <<GoodB, GoodA>>
    /\ run.requests[1].content
          = <<ExtractionPrompt, ImageOpen(GoodA.bytes), ImageOpen(GoodB.bytes)>>

(***************************************************************************)
(* Properties of generate_analysis_prompt: the preamble                    *)
(***************************************************************************)
\* The positions of the context label in a prompt.
LabelPositions(prompt) ==
    { k \in DOMAIN prompt : prompt[k] = "USER PROVIDED CONTEXT: " }

\* The transcript stands as it was given right after the heading of the
\* prompt.
TranscriptVerbatim(prompt, conversation_text) ==
    /\ Len(prompt) >= 1 + Len(conversation_text)
    /\ prompt[1] = "CONVERSATION TO ANALYZE:"
    /\ SubSeq(prompt, 2, 1 + Len(conversation_text)) = conversation_text

\* C17 as claimed: the prompt has the labeled context block exactly when the
\* context is not the empty string.
C17_Original ==
    out.done =>
        (LabelPositions(out.val.prompt) # {} <=> arg.user_context # <<>>)

\* C17, amended: the prompt has the labeled context block exactly when the
\* context has a character that is not whitespace; the block then stands
\* once, right after the transcript, and holds the context as it was given,
\* surrounding whitespace included; the instructions follow.  The transcript
\* stands as it was given in every prompt.
C17_ContextBlockWhenNotBlank ==
    out.done =>
        /\ ~out.val.raised
        /\ TranscriptVerbatim(out.val.prompt, arg.conversation_text)
        /\ IF \E i \in DOMAIN arg.user_context :
                  arg.user_context[i] \notin Whitespace
           THEN /\ LabelPositions(out.val.prompt)
                      = {2 + Len(arg.conversation_text)}
                /\ SubSeq(out.val.prompt, 3 + Len(arg.conversation_text),
                          2 + Len(arg.conversation_text) + Len(arg.user_context))
                      = arg.user_context
                /\ out.val.prompt[3 + Len(arg.conversation_text)
                                    + Len(arg.user_context)]
                      = "ANALYSIS INSTRUCTIONS:"
           ELSE /\ LabelPositions(out.val.prompt) = {}
                /\ out.val.prompt[2 + Len(arg.conversation_text)]
                      = "ANALYSIS INSTRUCTIONS:"

\* A prompt was built with the context " a": the block holds the blank and
\* the a.
C17_Witness ==
    /\ out.done
    /\ arg.conversation_text = <<"a", " ">>
    /\ arg.user_context = <<" ", "a">>
    /\ arg.analysis_type = "emotional_tone"
    /\ SubSeq(out.val.prompt, 4, 6) = <<"USER PROVIDED CONTEXT: ", " ", "a">>

(***************************************************************************)
(* Properties of prepare_images: equal names, and the two lists            *)
(***************************************************************************)
\* The entries of the files that decode, in upload order.
DecodedInUploadOrder(files) ==
    LET good == SelectSeq(files, LAMBDA f : Decodes(f.bytes))
    IN  [i \in DOMAIN good |-> EntryOf(good[i])]

\* The entries of a list that carry the name n, in the order of the list.
WithName(entries, n) == SelectSeq(entries, LAMBDA e : e.name = n)

\* C18: for every filename, the returned entries with that name are the
\* decodable uploaded files with that name in their upload order, whatever
\* their bytes and sizes are; and the returned list is in filename order.
C18_EqualNamesKeepUploadOrder ==
    out.done =>
        /\ \A n \in FileNames :
              WithName(out.val.file_data, n)
                  = WithName(DecodedInUploadOrder(arg), n)
        /\ AscendingByName(out.val.file_data)

\* Two files named a, the larger uploaded first, with a file named b between
\* them: the larger a comes back first, then the smaller a, then b.
C18_Witness ==
    /\ out.done
    /\ arg = << [name |-> <<"a">>, bytes |-> <<"P", "x">>],
                [name |-> <<"b">>, bytes |-> <<"P">>],
                [name |-> <<"a">>, bytes |-> <<"P">>] >>
    /\ out.val.file_data = << EntryOf(arg[1]), EntryOf(arg[3]), EntryOf(arg[2]) >>

\* C19: the image list and the metadata list have the same length, and at
\* every index the image is the one kept in the metadata entry, which is the
\* decoded image of an uploaded file that has the entry's name and whose
\* byte count is the entry's size.
C19_ImagesParallelToMetadata ==
    out.done =>
        /\ Len(out.val.images) = Len(out.val.file_data)
        /\ \A i \in DOMAIN out.val.file_data :
              /\ out.val.images[i] = out.val.file_data[i].image
              /\ \E k \in DOMAIN arg :
                    /\ Decodes(arg[k].bytes)
                    /\ arg[k].name = out.val.file_data[i].name
                    /\ Len(arg[k].bytes) = out.val.file_data[i].size
                    /\ out.val.images[i] = ImageOpen(arg[k].bytes)

\* A two-byte file named b and a one-byte file named a, uploaded in that
\* order: both lists have a first and b second.
C19_Witness ==
    /\ out.done
    /\ arg = << [name |-> <<"b">>, bytes |-> <<"P", "x">>],
                [name |-> <<"a">>, bytes |-> <<"P">>] >>
    /\ out.val.images = << ImageOpen(<<"P">>), ImageOpen(<<"P", "x">>) >>
    /\ [i \in 1..2 |-> out.val.file_data[i].size] = <<1, 2>>
    /\ [i \in 1..2 |-> out.val.file_data[i].name] = << <<"a">>, <<"b">> >>

(***************************************************************************)
(* Properties of the session: what an analysis is made from                *)
(***************************************************************************)
\* C20: the one request of a run that called analyze_conversation is the
\* prompt built from the Transcript the session held when the button was
\* pressed, with the type selected and the context typed in that run; that
\* Transcript is not empty, stands in the request as it is, and is still the
\* session's Transcript after the run.
C20_AnalysisUsesHeldTranscript ==
    run.called = "analyze" =>
        /\ Truthy(run.before.conversation)
        /\ conversation = run.before.conversation
        /\ Len(run.requests) = 1
        /\ run.requests[1].content
              = generate_analysis_prompt(run.before.conversation.text,
                                         run.selected_analysis,
                                         run.user_context).prompt
        /\ TranscriptVerbatim(run.requests[1].content,
                              run.before.conversation.text)

\* An analysis with a context was requested while the session held the
\* transcript "a": its prompt holds "a" and the context block.
C20_Witness ==
    /\ run.called = "analyze"
    /\ run.before.conversation = Some(<<"a">>)
    /\ run.user_context = <<"c">>
    /\ SubSeq(run.requests[1].content, 1, 3)
          = <<"CONVERSATION TO ANALYZE:", "a", "USER PROVIDED CONTEXT: ">>

(***************************************************************************)
(* Properties of the session: the shape of the cache                       *)
(***************************************************************************)
\* C21: in every state of the session the AnalysisCache maps analysis types
\* among the seven known ones to one record each, with a result, a timestamp,
\* a context and a processing time; a cache that is not empty goes with a
\* Transcript; and a run that sent an analysis request or changed the cache
\* to a non-empty one started from a session holding a Transcript.
C21_CacheWellFormed ==
    /\ DOMAIN analysis_results \subseteq AnalysisTypes
    /\ \A t \in DOMAIN analysis_results :
          DOMAIN analysis_results[t]
              = {"result", "timestamp", "context", "processing_time"}
    /\ DOMAIN analysis_results # {} => Truthy(conversation)
    /\ \A i \in DOMAIN run.requests :
          run.requests[i].kind = "analysis" => Truthy(run.before.conversation)
    /\ (analysis_results # run.before.analysis_results
           /\ DOMAIN analysis_results # {}) =>
          Truthy(run.before.conversation)

\* An analysis of a type that had a record succeeded while another type had
\* one too: the cache still has two records.
C21_Witness ==
    /\ run.called = "analyze"
    /\ Truthy(run.ret)
    /\ run.selected_analysis \in DOMAIN run.before.analysis_results
    /\ Cardinality(DOMAIN run.before.analysis_results) = 2
    /\ Cardinality(DOMAIN analysis_results) = 2
    /\ analysis_results # run.before.analysis_results

(***************************************************************************)
(* Properties of the session: trying again after a failure                 *)
(***************************************************************************)
\* The latest run called extract_conversation or analyze_conversation and
\* got nothing back.
OperationFailed == run.called \in {"extract", "analyze"} /\ ~Truthy(run.ret)

\* The session as it would be now had the latest run not happened.
SessionWithoutLatestRun ==
    [conversation |-> run.before.conversation,
     analysis_results |-> run.before.analysis_results, now |-> now]

\* The same button pressed again, with the same widgets, from the session
\* sess, the model answering with response.
PressAgain(sess, response) ==
    Script(api_key_input, uploaded_files, sess,
           Inputs(run.called, run.selected_analysis, run.user_context, TRUE,
                  response),
           TRUE)

\* What a run leaves in the session.
Outcome(result) ==
    [conversation |-> result.conversation,
     analysis_results |-> result.analysis_results,
     called |-> result.run.called, ret |-> result.run.ret]

\* What a run that got a result back has stored.
StoredItsResult(result) ==
    IF result.run.called = "extract"
    THEN result.conversation = result.run.ret
    ELSE /\ result.run.selected_analysis \in DOMAIN result.analysis_results
         /\ result.analysis_results[result.run.selected_analysis].result
               = result.run.ret.text

\* C22: after a run whose extraction or analysis failed, the button of that
\* action is rendered, and pressing it again calls the same operation and
\* leaves, for every answer of the model, the Transcript and the cache that
\* the same press would have left had the failed run not happened; when the
\* new call gets a result, the result is stored.
C22_FailureIsNotFatalToSession ==
    OperationFailed =>
        /\ run.called \in run.shown
        /\ \A response \in Responses :
              /\ Outcome(PressAgain(Session, response))
                    = Outcome(PressAgain(SessionWithoutLatestRun, response))
              /\ PressAgain(Session, response).run.called = run.called
              /\ Truthy(PressAgain(Session, response).run.ret) =>
                    StoredItsResult(PressAgain(Session, response))

\* An extraction raised while a transcript and a record were held, the
\* Extract button is there, and pressing it again with the answer "b" stores
\* "b".
C22_Witness ==
    /\ run.called = "extract"
    /\ run.response.kind = "raise"
    /\ ~Truthy(run.ret)
    /\ "extract" \in run.shown
    /\ DOMAIN analysis_results # {}
    /\ PressAgain(Session, [kind |-> "text", text |-> <<"b">>, secs |-> 2]).conversation
          = Some(<<"b">>)

(***************************************************************************)
(* Properties of the three operations: no exception leaves them            *)
(***************************************************************************)
\* C23: whatever files fail to decode and whatever the model does with the
\* request, the three methods return and no exception leaves them:
\* prepare_images returns the files that decoded and has reported one message
\* for each file that did not; extract_conversation and analyze_conversation,
\* when the request raises or brings no response with text, return None and
\* have reported one message.
C23_NoExceptionEscapes ==
    out.done =>
        /\ ~out.val.raised
        /\ arg.op = "prepare_images" =>
              /\ Len(out.val.errors)
                    = Cardinality({ i \in DOMAIN arg.files :
                                      ~Decodes(arg.files[i].bytes) })
              /\ Len(out.val.images)
                    = Cardinality({ i \in DOMAIN arg.files :
                                      Decodes(arg.files[i].bytes) })
        /\ (arg.op = "extract_conversation" /\ arg.images # <<>>
               /\ FailedResponse(arg.response)) =>
              /\ out.val.ret = None
              /\ out.val.errors \in { <<Err("gemini_api_error")>>,
                                      <<Err("no_response")>> }
        /\ (arg.op = "analyze_conversation" /\ arg.conversation_text # <<>>
               /\ FailedResponse(arg.response)) =>
              /\ out.val.ret = None
              /\ out.val.errors \in { <<Err("analysis_error")>>,
                                      <<Err("no_analysis_response")>> }

\* analyze_conversation was called with a transcript and the request raised:
\* the method returned None after one message.
C23_Witness ==
    /\ out.done
    /\ arg.op = "analyze_conversation"
    /\ arg.conversation_text = <<"a", "a">>
    /\ arg.response.kind = "raise"
    /\ ~out.val.raised
    /\ out.val.ret = None
    /\ out.val.errors = <<Err("analysis_error")>>

(***************************************************************************)
(* Properties of the session: the second tab                               *)
(***************************************************************************)
\* The latest run got past the key test and the construction of the client.
ClientReady == run.stage \notin {"no_key", "init_failed"}

\* C24: in every run of a session that holds a Transcript, with the client
\* constructed, the second tab is rendered to its end whatever files are
\* uploaded: the Analyze button is there, and so is the Clear button when the
\* cache has a record.
C24_AnalysisReachableWithTranscript ==
    (Truthy(conversation) /\ ClientReady) =>
        /\ run.stage = "end"
        /\ "analyze" \in run.shown
        /\ DOMAIN analysis_results # {} => "clear" \in run.shown

\* A session with a transcript and a record, in which the only uploaded file
\* does not decode: the run ended at "No valid images found" and rendered
\* neither button.
C24_Witness ==
    /\ Truthy(conversation)
    /\ DOMAIN analysis_results # {}
    /\ uploaded_files = <<BadA>>
    /\ ClientReady
    /\ run.stage = "no_images"
    /\ run.shown = {}

(***************************************************************************)
(* Properties of the session: what is stored                               *)
(***************************************************************************)
\* A text that is not empty and neither starts nor ends with whitespace.
TrimmedNonEmpty(text) ==
    /\ text # <<>>
    /\ text[1] \notin Whitespace
    /\ text[Len(text)] \notin Whitespace

\* The response of the latest call was text that is empty or whitespace only.
BlankTextResponse ==
    /\ run.called \in {"extract", "analyze"}
    /\ run.response.kind = "text"
    /\ \A i \in DOMAIN run.response.text : run.response.text[i] \in Whitespace

\* C25: in every state of the session the Transcript, when there is one, is
\* a non-empty text without leading or trailing whitespace, and so is the
\* result of every record of the cache; and a run whose response was empty
\* or whitespace only has stored nothing.
C25_StoredTextIsTrimmedNonEmpty ==
    /\ conversation # None => TrimmedNonEmpty(conversation.text)
    /\ \A t \in DOMAIN analysis_results :
          TrimmedNonEmpty(analysis_results[t].result)
    /\ BlankTextResponse =>
          /\ conversation = run.before.conversation
          /\ analysis_results = run.before.analysis_results

\* The transcript "a" and a record with the result "a", both stored from the
\* response " a" followed by a newline, are held after an analysis whose
\* response was a blank and a newline.
C25_Witness ==
    /\ BlankTextResponse
    /\ run.called = "analyze"
    /\ run.response.text = <<" ", "\n">>
    /\ conversation = Some(<<"a">>)
    /\ \E t \in DOMAIN analysis_results : analysis_results[t].result = <<"a">>

(***************************************************************************)
(* Properties of escape_javascript_string: the output as a literal         *)
(***************************************************************************)
\* The number of backslashes that stand in a row right before position k.
RECURSIVE BackslashesBefore(_, _)
BackslashesBefore(text, k) ==
    IF k = 1 \/ text[k - 1] # "\\" THEN 0
    ELSE 1 + BackslashesBefore(text, k - 1)

\* The reading of an escaped text: a backslash and the character after it
\* stand for one character.
RECURSIVE Unescape(_)
Unescape(text) ==
    IF text = <<>> THEN <<>>
    ELSE IF Head(text) = "\\" /\ Len(text) >= 2
    THEN << CASE text[2] = "n" -> "\n"
              [] text[2] = "r" -> "\r"
              [] OTHER -> text[2] >>
         \o Unescape(Tail(Tail(text)))
    ELSE <<Head(text)>> \o Unescape(Tail(text))

\* The texts of at most two characters.
ShortEscapeTexts == { t \in EscapeTexts : Len(t) <= 2 }

\* C26: the output of escape_javascript_string has no newline and no
\* carriage return; each backtick, double quote and single quote in it has
\* an odd number of backslashes in a row right before it; and the output
\* determines the input: reading the escapes back gives the input, and no
\* other text of up to two characters has the same output.
C26_OutputIsSafeAndInjective ==
    out.done =>
        /\ \A k \in DOMAIN out.val :
              /\ out.val[k] \notin {"\n", "\r"}
              /\ out.val[k] \in {Backtick, "\"", "'"} =>
                    BackslashesBefore(out.val, k) % 2 = 1
        /\ Unescape(out.val) = arg
        /\ \A t \in ShortEscapeTexts :
              t # arg => escape_javascript_string(t) # out.val

\* The function was called on two backslashes followed by a double quote:
\* five backslashes stand before the quote in the output; and on a newline
\* the output is the one that a backslash followed by n does not give.
C26_Witness ==
    /\ out.done
    /\ arg = <<"\\", "\\", "\"">>
    /\ out.val = <<"\\", "\\", "\\", "\\", "\\", "\"">>
    /\ BackslashesBefore(out.val, 6) = 5
    /\ escape_javascript_string(<<"\n">>) = <<"\\", "n">>
    /\ escape_javascript_string(<<"\\", "n">>) = <<"\\", "\\", "n">>

=============================================================================
